---- MODULE Spec2Model ----
(***************************************************************************)
(* A model of the LabHub mirror-indexing scripts:                          *)
(*   sort.py               the Sort & ID Assigner                          *)
(*   gen_mirrors.py        the Mirror URL Rewriter                         *)
(*   utils/check_dupes.py  the Duplicate Detector                          *)
(*   scripts/*/index.py    the family scanners, their checksum lookup and  *)
(*                         their size rendering                            *)
(*   index.py              the run of the scanners and the Merger          *)
(*                                                                         *)
(* Each script is a program of its own, so each has a specification of its *)
(* own (SpecSort, SpecRewrite, SpecMirror, SpecDupes, SpecLookup,          *)
(* SpecScan, SpecSize, SpecIndex) over its own variables; the variables    *)
(* of the other scripts are idle under it.  SpecMirrorEnv is gen_mirrors.py *)
(* with its directory changing under it, and SpecStages runs the three     *)
(* stages that read a catalog file, each on a file of its own.             *)
(*                                                                         *)
(* Python values are modelled as follows.                                  *)
(*   str    a sequence of code points (so that < and lower() are the       *)
(*          comparisons Python makes), or a sequence of tokens where only  *)
(*          substring search matters (URLs, file names, manifest lines)    *)
(*   dict   a sequence of [k, v] pairs in insertion order                  *)
(*   list   a sequence                                                     *)
(***************************************************************************)
EXTENDS Integers, Sequences, FiniteSets, TLC

VARIABLES
    \* sort.py: the file process_file works on
    sortFile,      \* its current content
    sortOrig,      \* its content before the first run
    sortFirst,     \* its content after the first run
    sortRuns,      \* how many times process_file has run on it
    sortOk,        \* what the last run returned
    \* gen_mirrors.py, update_urls_in_data on one tree
    rwIn,          \* the tree json.load returned
    rwOut,         \* the tree as update_urls_in_data leaves it
    rwDone,        \* whether update_urls_in_data has run
    \* gen_mirrors.py, main
    fs,            \* the directory: file name -> content
    fs0,           \* the directory before the run
    migPc,         \* "verify", "migrate", "done"
    migIdx,        \* the index in INDEX_FILES of the file the loop is at
    migOk,         \* what verify_index_files / migrate_urls returned
    written,       \* the file names opened for writing so far
    \* utils/check_dupes.py
    dupFile,       \* the file main is given: "json", "invalid" or "missing"
    json_data,     \* the merged catalog main loaded
    results,       \* what check_duplicates returned
    dupReport,     \* whether print_report has printed a report
    dupDone,       \* whether main has run
    \* scripts/*/index.py, lookup_hash
    manifests,     \* the checksum manifests: hash type -> file
    manifests0,    \* the manifests before the lookup
    lkScript,      \* whose lookup_hash runs: "qemu" or "dynamips"
    lkPath,        \* the path looked up
    lkType,        \* the hash type asked for
    lkOut,         \* the outcome of the call: raised, or the value returned
    lkDone,        \* whether the call has been made
    \* scripts/*/index.py, the scan
    scanner,       \* whose scan runs: "qemu" or "dynamips"
    walk,          \* the directories as os.walk yields them, with their files
    truncate,      \* --truncate, -1 when not given
    scanPc,        \* "count", "walk", "done", "written", "crashed"
    scanIdx,       \* the directory (qemu) or file (dynamips) the loop is at
    total_entries, \* qemu: the first pass's count, truncated
    entry_count,   \* qemu: entry_count, dynamips: processed
    index_entries, \* the entries appended so far
    full_schema,   \* the "images" of the family catalog, once it is written
    \* scripts/*/index.py, the size rendering
    hsScript,      \* whose function runs: "qemu" or "dynamips"
    hsBytes,       \* the byte count rendered
    hsOut,         \* the rendering returned
    hsDone,        \* whether the call has been made
    \* index.py, main from run_indexing_scripts on
    idxPc,         \* "index", "merge", "finish", "done", "exited", "interrupted"
    img_i,         \* the index in IMAGE_TYPES of the family the loop is at
    scripts,       \* family -> what a run of its index script does
    run_results,   \* run_indexing_scripts: results, family -> return code
    repo,          \* family -> its directory: the deployed script, its JSON
    dist,          \* family -> its JSON in dist/
    labhub         \* dist/labhub.json

sortVars == <<sortFile, sortOrig, sortFirst, sortRuns, sortOk>>
rwVars == <<rwIn, rwOut, rwDone>>
migVars == <<fs, fs0, migPc, migIdx, migOk, written>>
dupVars == <<dupFile, json_data, results, dupReport, dupDone>>
lkVars == <<manifests, manifests0, lkScript, lkPath, lkType, lkOut, lkDone>>
scanVars == <<scanner, walk, truncate, scanPc, scanIdx, total_entries,
              entry_count, index_entries, full_schema>>

sizeVars == <<hsScript, hsBytes, hsOut, hsDone>>
idxVars == <<idxPc, img_i, scripts, run_results, repo, dist, labhub>>

vars == <<sortVars, rwVars, migVars, dupVars, lkVars, scanVars, sizeVars, idxVars>>

----------------------------------------------------------------------------
(* Bounds *)

MaxEntries == 2      \* entries in a flat catalog, and under one family key
MaxSortRuns == 2     \* runs of process_file on one file
MaxKids == 2         \* members of one object or array of a JSON tree
MaxDupEntries == 3   \* entries of the family check_duplicates is tried on
MaxLines == 2        \* lines of a checksum manifest
MaxDirs == 2         \* directories os.walk yields
MaxImages == 2       \* files os.listdir yields to the DYNAMIPS scan
MaxTruncate == 2     \* the largest --truncate tried

----------------------------------------------------------------------------
(* Sequences, strings and dicts as Python has them *)

SeqsUpTo(S, n) == UNION {[1..k -> S] : k \in 0..n}

Range(s) == {s[i] : i \in DOMAIN s}

\* str < str: lexicographic on code points
RECURSIVE StrLess(_, _)
StrLess(a, b) ==
    IF b = <<>> THEN FALSE
    ELSE IF a = <<>> THEN TRUE
    ELSE IF a[1] # b[1] THEN a[1] < b[1]
    ELSE StrLess(Tail(a), Tail(b))

\* str.lower() on ASCII: 'A'..'Z' (65..90) go to 'a'..'z'
Lower(s) == [i \in DOMAIN s |-> IF s[i] \in 65..90 THEN s[i] + 32 ELSE s[i]]

DictHas(d, k) == \E i \in DOMAIN d : d[i].k = k

DictGet(d, k) == d[CHOOSE i \in DOMAIN d : d[i].k = k].v

\* d[k] = v: an existing key keeps its place, a new key goes last
DictSet(d, k, v) ==
    IF DictHas(d, k)
    THEN [i \in DOMAIN d |-> IF d[i].k = k THEN [k |-> k, v |-> v] ELSE d[i]]
    ELSE Append(d, [k |-> k, v |-> v])

\* {**base, **more}
RECURSIVE DictMerge(_, _)
DictMerge(base, more) ==
    IF more = <<>> THEN base
    ELSE DictMerge(DictSet(base, more[1].k, more[1].v), Tail(more))

----------------------------------------------------------------------------
(* sort.py *)

FAMILY_KEYS == <<"QEMU", "IOL", "DYNAMIPS">>

\* the key function of both sorts: lambda x: x['name']
SortKey(entry) == DictGet(entry, "name")

\* list.sort(key=...) is stable: an element goes after every element whose
\* key is not greater than its own
RECURSIVE InsertByKeyUnstable(_, _)
InsertByKeyUnstable(sorted, e) ==
    IF sorted = <<>> THEN <<e>>
    ELSE IF StrLess(SortKey(sorted[1]), SortKey(e))
         THEN <<sorted[1]>> \o InsertByKeyUnstable(Tail(sorted), e)
         ELSE <<e>> \o sorted

RECURSIVE InsertByKey(_, _)
InsertByKey(sorted, e) ==
    IF sorted = <<>> THEN <<e>>
    ELSE IF StrLess(SortKey(e), SortKey(sorted[1]))
         THEN <<e>> \o sorted
         ELSE <<sorted[1]>> \o InsertByKey(Tail(sorted), e)

RECURSIVE SortByName(_)
SortByName(entries) ==
    IF entries = <<>> THEN <<>>
    ELSE InsertByKey(SortByName(SubSeq(entries, 1, Len(entries) - 1)),
                     entries[Len(entries)])

\* {"id": i, **entry}
StampId(i, entry) == DictMerge(<<[k |-> "id", v |-> <<i>>]>>, entry)

\* entries.sort(key=lambda x: x['name']) and the enumerate loop after it.
\* A value that is no list has no sort (AttributeError); an entry without
\* a name fails the key function (KeyError).
SortAndStamp(val) ==
    IF val.t # "list" THEN [ok |-> FALSE, val |-> val]
    ELSE IF \E i \in DOMAIN val.items : ~DictHas(val.items[i], "name")
    THEN [ok |-> FALSE, val |-> val]
    ELSE LET sorted == SortByName(val.items)
         IN  [ok |-> TRUE,
              val |-> [val EXCEPT !.items =
                          [i \in DOMAIN sorted |-> StampId(i, sorted[i])]]]

process_flat_data(data) ==
    IF data.t = "dict"
    THEN [ok |-> FALSE, data |-> data]
    ELSE LET r == SortAndStamp([t |-> "list", items |-> data.items])
         IN  [ok |-> r.ok, data |-> [data EXCEPT !.items = r.val.items]]

\* for key in data: the first value that fails ends the loop with its
\* exception
RECURSIVE StructuredFrom(_, _)
StructuredFrom(pairs, i) ==
    IF i > Len(pairs) THEN [ok |-> TRUE, pairs |-> pairs]
    ELSE LET r == SortAndStamp(pairs[i].v)
         IN  IF ~r.ok THEN [ok |-> FALSE, pairs |-> pairs]
             ELSE StructuredFrom([pairs EXCEPT ![i].v = r.val], i + 1)

process_structured_data(data) ==
    LET r == StructuredFrom(data.pairs, 1)
    IN  [ok |-> r.ok, data |-> [data EXCEPT !.pairs = r.pairs]]

\* any(key in data for key in ["QEMU", "IOL", "DYNAMIPS"]): on a dict a key
\* test, on a list of entries an element test no string passes
IsStructured(data) ==
    /\ data.t = "dict"
    /\ \E i \in DOMAIN FAMILY_KEYS : DictHas(data.pairs, FAMILY_KEYS[i])

\* process_file with json.load taking whatever text the file holds
ProcessFileUnchecked(data) ==
    IF data.t = "invalid"
    THEN [ok |-> TRUE, data |-> [t |-> "list", items |-> <<>>, pairs |-> <<>>]]
    ELSE IF IsStructured(data) THEN process_structured_data(data)
    ELSE process_flat_data(data)

\* process_file: load, process, dump; any exception, json.load's
\* JSONDecodeError on a file that is no JSON among them, leaves the file as
\* it was and returns False
ProcessFileResult(data) ==
    IF data.t = "invalid" THEN [ok |-> FALSE, data |-> data]
    ELSE IF IsStructured(data) THEN process_structured_data(data)
    ELSE process_flat_data(data)

----------------------------------------------------------------------------
(* The catalogs sort.py is run on *)

Name_a == <<97>>
Name_B == <<66>>

Pair(k, v) == [k |-> k, v |-> v]

\* an entry as a scanner writes it (name, then the rest), with the id, if
\* any, first as DYNAMIPS and QEMU stamp it
Entry(id, name, type) ==
    (IF id = 0 THEN <<>> ELSE <<Pair("id", <<id>>)>>)
    \o <<Pair("name", name), Pair("type", <<type>>)>>

EntryPool ==
    {Entry(id, n, 1) : id \in 0..2, n \in {Name_a, Name_B}}
    \cup {Entry(0, Name_a, 2)}
    \cup {<<Pair("type", <<1>>)>>}
    \cup {<<Pair("name", Name_a), Pair("id", <<2>>)>>}

FamilyPool == {Entry(0, Name_a, 1), Entry(0, Name_B, 1), Entry(2, Name_a, 2)}

ListVal(items) == [t |-> "list", items |-> items]
StrVal == [t |-> "str", items |-> <<>>]
ObjVal == [t |-> "obj", items |-> <<>>]

FlatCatalog(items) == [t |-> "list", items |-> items, pairs |-> <<>>]
KeyedCatalog(pairs) == [t |-> "dict", items |-> <<>>, pairs |-> pairs]

\* a file whose text is not JSON
InvalidCatalog == [t |-> "invalid", items |-> <<>>, pairs |-> <<>>]

\* the unified catalog as index.py's process_index_files lays it out
UnifiedCatalog(iol, qemu, dynamips) ==
    KeyedCatalog(<<Pair("schema_version", StrVal),
                   Pair("description", StrVal),
                   Pair("last_update", StrVal),
                   Pair("url_properties", ObjVal),
                   Pair("IOL", ListVal(iol)),
                   Pair("QEMU", ListVal(qemu)),
                   Pair("DYNAMIPS", ListVal(dynamips))>>)

\* a family catalog as a scanner's generate_full_schema lays it out
FamilyCatalog(images) ==
    KeyedCatalog(<<Pair("schema_version", StrVal),
                   Pair("description", StrVal),
                   Pair("last_update", StrVal),
                   Pair("url_properties", ObjVal),
                   Pair("images", ListVal(images))>>)

SortInputs ==
    {FlatCatalog(s) : s \in SeqsUpTo(EntryPool, MaxEntries)}
    \cup {KeyedCatalog(<<Pair("IOL", ListVal(a)), Pair("QEMU", ListVal(b))>>) :
             a, b \in SeqsUpTo(FamilyPool, MaxEntries)}
    \cup {UnifiedCatalog(a, b, <<>>) : a, b \in SeqsUpTo(FamilyPool, MaxEntries)}
    \cup {FamilyCatalog(a) : a \in SeqsUpTo(FamilyPool, MaxEntries)}
    \cup {InvalidCatalog}

\* a script that is not run
IdleSort ==
    /\ sortFile = FlatCatalog(<<>>)
    /\ sortOrig = sortFile
    /\ sortFirst = sortFile
    /\ sortRuns = 0
    /\ sortOk = FALSE

InitSort ==
    /\ sortFile \in SortInputs
    /\ sortOrig = sortFile
    /\ sortFirst = sortFile
    /\ sortRuns = 0
    /\ sortOk = FALSE

process_file ==
    /\ sortRuns < MaxSortRuns
    /\ LET r == ProcessFileResult(sortFile)
       IN  /\ sortOk' = r.ok
           /\ sortFile' = IF r.ok THEN r.data ELSE sortFile
    /\ sortFirst' = IF sortRuns = 0 THEN sortFile' ELSE sortFirst
    /\ sortRuns' = sortRuns + 1
    /\ UNCHANGED <<sortOrig, rwVars, migVars, dupVars, lkVars, scanVars,
                   sizeVars, idxVars>>

----------------------------------------------------------------------------
(* gen_mirrors.py *)

\* URLs and file names are sequences of tokens; the two base URLs and the
\* index file names are made of these
OLD_BASE_URL == <<"labhub.eu.org", "/api/raw/?path=/">>
NEW_BASE_URL == <<"drive.", "labhub.eu.org", "/0:/">>

INDEX_FILES == << <<"index", ".od", ".iol", ".json">>,
                  <<"index", ".od", ".qemu", ".json">>,
                  <<"index", ".od", ".dynamips", ".json">>,
                  <<"index", ".od", ".json">> >>

\* old in s
Contains(s, old) ==
    \E i \in 1..(Len(s) - Len(old) + 1) : SubSeq(s, i, i + Len(old) - 1) = old

\* s.replace(old, new): every occurrence, left to right, none overlapping
RECURSIVE Replace(_, _, _)
Replace(s, old, new) ==
    IF Len(s) < Len(old) THEN s
    ELSE IF SubSeq(s, 1, Len(old)) = old
         THEN new \o Replace(SubSeq(s, Len(old) + 1, Len(s)), old, new)
         ELSE <<s[1]>> \o Replace(Tail(s), old, new)

\* A JSON tree: [t, s, kids]. t is "str" (s its text), "num", "dict" (kids
\* its [k, v] pairs) or "list" (kids its items, each under the key "").
StrNode(s) == [t |-> "str", s |-> s, kids |-> <<>>]
NumNode == [t |-> "num", s |-> <<>>, kids |-> <<>>]
DictNode(kids) == [t |-> "dict", s |-> <<>>, kids |-> kids]
ListNode(items) ==
    [t |-> "list", s |-> <<>>, kids |-> [i \in DOMAIN items |-> Pair("", items[i])]]

\* the rewriter with the key test dropped: every string is rewritten
RECURSIVE UpdateEveryString(_)
UpdateEveryString(data) ==
    IF data.t = "str" THEN StrNode(Replace(data.s, OLD_BASE_URL, NEW_BASE_URL))
    ELSE IF data.t = "num" THEN data
    ELSE [data EXCEPT !.kids =
             [i \in DOMAIN data.kids |->
                 Pair(data.kids[i].k, UpdateEveryString(data.kids[i].v))]]

RECURSIVE update_urls_in_data(_)
update_urls_in_data(data) ==
    IF data.t = "dict"
    THEN [data EXCEPT !.kids =
             [i \in DOMAIN data.kids |->
                 LET key == data.kids[i].k
                     value == data.kids[i].v
                 IN  IF key = "url" /\ value.t = "str"
                     THEN Pair(key, StrNode(Replace(value.s, OLD_BASE_URL,
                                                    NEW_BASE_URL)))
                     ELSE Pair(key, update_urls_in_data(value))]]
    ELSE IF data.t = "list"
    THEN [data EXCEPT !.kids =
             [i \in DOMAIN data.kids |->
                 Pair("", update_urls_in_data(data.kids[i].v))]]
    ELSE data

\* The trees update_urls_in_data is run on
UrlTwice == OLD_BASE_URL \o <<"a/">> \o OLD_BASE_URL \o <<"x">>
UrlOther == <<"https://", "labhub.eu.org", "/x">>

Leaves == {StrNode(UrlTwice), StrNode(UrlOther), NumNode}

Keys == {"url", "path"}

InjSeqs(S, n) ==
    {s \in SeqsUpTo(S, n) : \A i, j \in DOMAIN s : i # j => s[i] # s[j]}

Dicts(V, n) ==
    UNION {{DictNode([i \in DOMAIN ks |-> Pair(ks[i], f[i])]) :
               f \in [DOMAIN ks -> V]} : ks \in InjSeqs(Keys, n)}

Lists(V, n) == {ListNode(items) : items \in SeqsUpTo(V, n)}

Objects == Dicts(Leaves, MaxKids)
Arrays == Lists(Leaves, MaxKids)

\* a leaf; an object or array of leaves; an object of those; an array of
\* leaves and objects; an array holding one array
Trees ==
    Leaves \cup Objects \cup Arrays
    \cup Dicts(Leaves \cup Objects \cup Arrays, MaxKids)
    \cup Lists(Leaves \cup Objects, MaxKids)
    \cup {ListNode(<<a>>) : a \in Arrays}

IdleRewrite ==
    /\ rwIn = NumNode
    /\ rwOut = NumNode
    /\ rwDone = FALSE

InitRewrite ==
    /\ rwIn \in Trees
    /\ rwOut = rwIn
    /\ rwDone = FALSE

\* update_urls_in_data(data) on the loaded tree
UpdateUrls ==
    /\ ~rwDone
    /\ rwOut' = update_urls_in_data(rwIn)
    /\ rwDone' = TRUE
    /\ UNCHANGED <<rwIn, sortVars, migVars, dupVars, lkVars, scanVars,
                   sizeVars, idxVars>>

\* index_file.replace("index.od", "index.gd")
SameName(index_file) == Replace(index_file, <<"index", ".od">>, <<"index", ".od">>)

MirrorName(index_file) == Replace(index_file, <<"index", ".od">>, <<"index", ".gd">>)

\* A file: missing, or holding text that is invalid JSON, or a JSON tree
Missing == [st |-> "missing", data |-> NumNode]
Invalid == [st |-> "invalid", data |-> NumNode]
Json(tree) == [st |-> "json", data |-> tree]

CatalogWithUrl ==
    DictNode(<<Pair("QEMU", ListNode(<<DictNode(<<Pair("name", StrNode(<<"x">>)),
                                                  Pair("url", StrNode(UrlTwice))>>)>>))>>)
CatalogWithPath ==
    DictNode(<<Pair("images", ListNode(<<DictNode(<<Pair("path", StrNode(UrlTwice))>>)>>))>>)

ContentPool == {Missing, Invalid, Json(CatalogWithUrl), Json(CatalogWithPath)}

FileNames == Range(INDEX_FILES) \cup {MirrorName(INDEX_FILES[i]) : i \in DOMAIN INDEX_FILES}

IdleMirror ==
    /\ fs = [n \in FileNames |-> Missing]
    /\ fs0 = fs
    /\ migPc = "done"
    /\ migIdx = 1
    /\ migOk = FALSE
    /\ written = {}

\* the index files are as the earlier stages left them; a mirror file is
\* missing or left by an earlier run
InitMirror ==
    /\ fs \in [FileNames -> ContentPool]
    /\ \A i \in DOMAIN INDEX_FILES :
          fs[MirrorName(INDEX_FILES[i])] \in {Missing, Json(CatalogWithPath)}
    /\ \A i, j \in DOMAIN INDEX_FILES :
          fs[MirrorName(INDEX_FILES[i])] = fs[MirrorName(INDEX_FILES[j])]
    /\ fs0 = fs
    /\ migPc = "verify"
    /\ migIdx = 1
    /\ migOk = FALSE
    /\ written = {}

\* one turn of verify_index_files' loop: open and json.load the file
VerifyStep ==
    /\ migPc = "verify"
    /\ LET index_file == INDEX_FILES[migIdx]
       IN  IF fs[index_file].st # "json"
           THEN /\ migPc' = "done"
                /\ migOk' = FALSE
                /\ UNCHANGED migIdx
           ELSE IF migIdx = Len(INDEX_FILES)
           THEN /\ migPc' = "migrate"
                /\ migIdx' = 1
                /\ migOk' = TRUE
           ELSE /\ migIdx' = migIdx + 1
                /\ UNCHANGED <<migPc, migOk>>
    /\ UNCHANGED <<fs, fs0, written, sortVars, rwVars, dupVars, lkVars, scanVars,
                   sizeVars, idxVars>>

\* one turn of migrate_urls' loop: load, update, save under the new name
MigrateStep ==
    /\ migPc = "migrate"
    /\ LET index_file == INDEX_FILES[migIdx]
           new_filename == MirrorName(index_file)
       IN  IF fs[index_file].st # "json"
           THEN /\ migPc' = "done"
                /\ migOk' = FALSE
                /\ UNCHANGED <<fs, written, migIdx>>
           ELSE /\ fs' = [fs EXCEPT ![new_filename] =
                             Json(update_urls_in_data(fs[index_file].data))]
                /\ written' = written \cup {new_filename}
                /\ IF migIdx = Len(INDEX_FILES)
                   THEN /\ migPc' = "done"
                        /\ migOk' = TRUE
                        /\ UNCHANGED migIdx
                   ELSE /\ migIdx' = migIdx + 1
                        /\ UNCHANGED <<migPc, migOk>>
    /\ UNCHANGED <<fs0, sortVars, rwVars, dupVars, lkVars, scanVars,
                   sizeVars, idxVars>>

\* What can happen to a turn of migrate_urls' loop from outside, after
\* verify_index_files has passed: an index file not yet migrated is removed
\* by another process
IndexFileLost ==
    /\ migPc = "migrate"
    /\ \A i \in DOMAIN INDEX_FILES : fs[INDEX_FILES[i]].st = "json"
    /\ \E i \in migIdx..Len(INDEX_FILES) :
          fs' = [fs EXCEPT ![INDEX_FILES[i]] = Missing]
    /\ UNCHANGED <<fs0, migPc, migIdx, migOk, written, sortVars, rwVars, dupVars,
                   lkVars, scanVars, sizeVars, idxVars>>

\* a turn of migrate_urls' loop in which open(new_filename, "w") raises:
\* the except clause returns False
MirrorWriteFails ==
    /\ migPc = "migrate"
    /\ fs[INDEX_FILES[migIdx]].st = "json"
    /\ migPc' = "done"
    /\ migOk' = FALSE
    /\ UNCHANGED <<fs, fs0, migIdx, written, sortVars, rwVars, dupVars, lkVars,
                   scanVars, sizeVars, idxVars>>

----------------------------------------------------------------------------
(* utils/check_dupes.py *)

DEVICE_TYPES == <<"IOL", "QEMU", "DYNAMIPS">>

\* counts[key] += 1 on a defaultdict(int)
Incr(counts, key) ==
    IF key \in DOMAIN counts
    THEN [counts EXCEPT ![key] = @ + 1]
    ELSE counts @@ (key :> 1)

\* one += 1 per value, in order
RECURSIVE Tally(_, _)
Tally(counts, values) ==
    IF values = <<>> THEN counts
    ELSE Tally(Incr(counts, values[1]), Tail(values))

\* for entry in entries: entry["name"]
EntryNames(entries) == [i \in DOMAIN entries |-> entries[i].name]

\* the tally with one checksum per entry, its first file's, and none for
\* the empty string
RECURSIVE ChecksumsPerEntry(_, _)
ChecksumsPerEntry(entries, kind) ==
    IF entries = <<>> THEN <<>>
    ELSE (IF entries[1].files = <<>> \/ entries[1].files[1].checksum[kind] = ""
          THEN <<>>
          ELSE <<entries[1].files[1].checksum[kind]>>)
         \o ChecksumsPerEntry(Tail(entries), kind)

\* for entry in entries: for file_entry in entry["files"]:
\* file_entry["checksum"][kind]
RECURSIVE Checksums(_, _)
Checksums(entries, kind) ==
    IF entries = <<>> THEN <<>>
    ELSE [i \in DOMAIN entries[1].files |-> entries[1].files[i].checksum[kind]]
         \o Checksums(Tail(entries), kind)

\* the report with every counted value in it
AtLeastOnce(counts) == counts

\* for value, count in counts.items(): if count > 1: ...
Duplicates(counts) ==
    [key \in {k \in DOMAIN counts : counts[k] > 1} |-> counts[key]]

\* the body of the loop over the device types, for one that is present
TypeResults(entries) ==
    [duplicate_names |-> Duplicates(Tally(<<>>, EntryNames(entries))),
     duplicate_md5   |-> Duplicates(Tally(<<>>, Checksums(entries, "md5"))),
     duplicate_sha1  |-> Duplicates(Tally(<<>>, Checksums(entries, "sha1")))]

\* if device_type not in json_data: continue
check_duplicates(data) ==
    [device_type \in {DEVICE_TYPES[i] : i \in {j \in DOMAIN DEVICE_TYPES :
                                                 data[DEVICE_TYPES[j]].present}}
        |-> TypeResults(data[device_type].entries)]

\* The merged catalogs check_duplicates is run on.  A key of the catalog is
\* present with its entries, or absent.
Name_Ro == <<82, 111>>
Name_ro == <<114, 111>>
Name_sw == <<115, 119>>

File(md5, sha1) == [checksum |-> [md5 |-> md5, sha1 |-> sha1]]
DupEntry(name, files) == [name |-> name, files |-> files]

DupPool ==
    {DupEntry(Name_Ro, <<File("m1", "s1")>>),
     DupEntry(Name_ro, <<File("m1", "s2")>>),
     DupEntry(Name_sw, <<>>),
     DupEntry(Name_sw, <<File("", ""), File("", "")>>),
     DupEntry(Name_Ro, <<File("m2", "s1"), File("m1", "s1")>>)}

Absent == [present |-> FALSE, entries |-> <<>>]
Present(entries) == [present |-> TRUE, entries |-> entries]

OtherFamilies ==
    {Absent,
     Present(<<DupEntry(Name_Ro, <<File("m1", "s1")>>)>>),
     Present(<<DupEntry(Name_sw, <<>>), DupEntry(Name_sw, <<File("m1", "s1")>>)>>)}

MergedCatalog(iol, qemu, dynamips) ==
    [t \in Range(DEVICE_TYPES) |->
        IF t = "IOL" THEN iol ELSE IF t = "QEMU" THEN qemu ELSE dynamips]

MergedCatalogs ==
    {MergedCatalog(iol, qemu, dynamips) :
        iol \in {Absent} \cup {Present(e) : e \in SeqsUpTo(DupPool, MaxDupEntries)},
        qemu \in OtherFamilies,
        dynamips \in {Absent, Present(<<DupEntry(Name_Ro, <<File("", "")>>)>>)}}

IdleDupes ==
    /\ dupFile = "missing"
    /\ json_data = MergedCatalog(Absent, Absent, Absent)
    /\ results = <<>>
    /\ dupReport = FALSE
    /\ dupDone = FALSE

\* nothing is loaded from a file that is missing or no JSON
InitDupes ==
    /\ dupFile \in {"json", "invalid", "missing"}
    /\ json_data \in IF dupFile = "json" THEN MergedCatalogs
                     ELSE {MergedCatalog(Absent, Absent, Absent)}
    /\ results = <<>>
    /\ dupReport = FALSE
    /\ dupDone = FALSE

\* main: the load, which returns on FileNotFoundError and JSONDecodeError,
\* then duplicate_report = check_duplicates(data, verbose=args.verbose) and
\* print_report(duplicate_report)
CheckDuplicates ==
    /\ ~dupDone
    /\ IF dupFile = "json"
       THEN /\ results' = check_duplicates(json_data)
            /\ dupReport' = TRUE
       ELSE UNCHANGED <<results, dupReport>>
    /\ dupDone' = TRUE
    /\ UNCHANGED <<dupFile, json_data, sortVars, rwVars, migVars, lkVars, scanVars,
                   sizeVars, idxVars>>

----------------------------------------------------------------------------
(* scripts/qemu/index.py and scripts/dynamips/index.py: lookup_hash *)

\* A line of a manifest and a path are sequences of characters.
IsSpace(c) == c = " "

\* line.strip()
RECURSIVE LStrip(_)
LStrip(s) == IF s # <<>> /\ IsSpace(s[1]) THEN LStrip(Tail(s)) ELSE s

RECURSIVE RStrip(_)
RStrip(s) ==
    IF s # <<>> /\ IsSpace(s[Len(s)]) THEN RStrip(SubSeq(s, 1, Len(s) - 1)) ELSE s

Strip(s) == RStrip(LStrip(s))

\* line.split('  ', 1): cut at the leftmost two spaces, if any
RECURSIVE SplitFrom(_, _)
SplitFrom(line, i) ==
    IF i >= Len(line) THEN <<line>>
    ELSE IF line[i] = " " /\ line[i + 1] = " "
         THEN <<SubSeq(line, 1, i - 1), SubSeq(line, i + 2, Len(line))>>
         ELSE SplitFrom(line, i + 1)

SplitOnce(line) == SplitFrom(line, 1)

\* hash_file_path.replace('\\', '/')
Posix(path) == [i \in DOMAIN path |-> IF path[i] = "\\" THEN "/" ELSE path[i]]

\* the path column as each script compares it: QEMU normalises it,
\* DYNAMIPS takes it as it is
Column(script, path) == IF script = "qemu" THEN Posix(path) ELSE path

\* for line in f: the hash of the first line whose path column is the
\* path, "" when the loop ends without one
RECURSIVE SearchLines(_, _, _)
SearchLines(script, lines, path) ==
    IF lines = <<>> THEN <<>>
    ELSE LET line == Strip(lines[1])
             parts == SplitOnce(line)
         IN  IF line = <<>> THEN SearchLines(script, Tail(lines), path)
             ELSE IF Len(parts) # 2 THEN SearchLines(script, Tail(lines), path)
             ELSE IF Column(script, parts[2]) = path THEN parts[1]
             ELSE SearchLines(script, Tail(lines), path)

Returned(value) == [raised |-> FALSE, value |-> value]
Raised == [raised |-> TRUE, value |-> <<>>]

\* the body of the try: open raises FileNotFoundError on a missing file
TryBody(script, file, path) ==
    IF ~file.exists THEN Raised
    ELSE Returned(SearchLines(script, file.lines, path))

\* a lookup_hash whose exceptions reach the caller
Propagate(outcome) == outcome

\* except FileNotFoundError / except Exception, then return ""
Handle(outcome) == IF outcome.raised THEN Returned(<<>>) ELSE outcome

lookup_hash(script, files, path, hash_type) ==
    IF hash_type \notin {"md5", "sha1"} THEN Returned(<<>>)
    ELSE Handle(TryBody(script, files[hash_type], path))

\* The manifests and paths lookup_hash is tried on
NoFile == [exists |-> FALSE, lines |-> <<>>]
TextFile(lines) == [exists |-> TRUE, lines |-> lines]

Path_ab == <<"a", "/", "b">>
Path_b == <<"b">>
Path_c == <<"c">>

LinePool ==
    {<<"h", " ", " ", "a", "/", "b">>,
     <<"g", " ", " ", "a", "/", "b">>,
     <<"h", " ", " ", "a", "\\", "b">>,
     <<>>,
     <<" ", "h", " ", " ", "b", " ">>,
     <<"h", " ", "a", "/", "b">>,
     <<"g", " ", " ", " ", "b">>,
     <<"g", " ", " ", "b", " ", " ", "c">>}

Manifests ==
    {[t \in {"md5", "sha1"} |-> IF t = "md5" THEN m ELSE s] :
        m \in {NoFile} \cup {TextFile(l) : l \in SeqsUpTo(LinePool, MaxLines)},
        s \in {NoFile, TextFile(<<<<"g", " ", " ", "b">>>>)}}

IdleLookup ==
    /\ manifests = [t \in {"md5", "sha1"} |-> NoFile]
    /\ manifests0 = manifests
    /\ lkScript = "qemu"
    /\ lkPath = Path_c
    /\ lkType = "md5"
    /\ lkOut = Returned(<<>>)
    /\ lkDone = FALSE

InitLookup ==
    /\ manifests \in Manifests
    /\ manifests0 = manifests
    /\ lkScript \in {"qemu", "dynamips"}
    /\ lkPath \in {Path_ab, Path_b, Path_c}
    /\ lkType \in {"md5", "sha1", "sha256"}
    /\ lkOut = Returned(<<>>)
    /\ lkDone = FALSE

\* a call of lookup_hash; it opens the manifest for reading only
LookupHash ==
    /\ ~lkDone
    /\ lkOut' = lookup_hash(lkScript, manifests, lkPath, lkType)
    /\ lkDone' = TRUE
    /\ UNCHANGED <<manifests, manifests0, lkScript, lkPath, lkType,
                   sortVars, rwVars, migVars, dupVars, scanVars,
                   sizeVars, idxVars>>

----------------------------------------------------------------------------
(* scripts/qemu/index.py and scripts/dynamips/index.py: the scans *)

\* A file name is a sequence of tokens, the last one its extension:
\* <<"x", ".tar", ".gz">>.  A file on disk is [filename, size]; its size is
\* Vanished when os.path.getsize fails on it (it was listed and is gone).
Vanished == -1
NoTruncate == -1

OnDisk(filename, size) == [filename |-> filename, size |-> size]
Dir(name, files) == [name |-> name, files |-> files]

\* filename.endswith(suffix)
EndsWith(filename, suffix) ==
    /\ Len(filename) >= Len(suffix)
    /\ SubSeq(filename, Len(filename) - Len(suffix) + 1, Len(filename)) = suffix

\* os.path.splitext(filename)
SplitExt(filename) ==
    <<SubSeq(filename, 1, Len(filename) - 1), filename[Len(filename)]>>

IsQcow2(f) == EndsWith(f.filename, <<".qcow2">>)

IsArchive(f) ==
    \/ EndsWith(f.filename, <<".tgz">>)
    \/ EndsWith(f.filename, <<".tar", ".gz">>)
    \/ EndsWith(f.filename, <<".zip">>)

IsImage(f) == EndsWith(f.filename, <<".image">>)

\* FILE_TYPE_MAPPING.get(file_format.lower(), 'other')
get_file_type(file_format) ==
    CASE file_format \in {".qcow2", ".img", ".vmdk", ".iso"} -> "disk"
      [] file_format \in {".yml", ".yaml"} -> "template"
      [] file_format \in {".txt", ".md"} -> "document"
      [] file_format \in {".tar.gz", ".tgz", ".zip"} -> "archive"
      [] file_format \in {".py", ".sh"} -> "script"
      [] file_format = ".png" -> "image"
      [] OTHER -> "other"

NoEntry == [raised |-> TRUE, value |-> <<>>]
Made(value) == [raised |-> FALSE, value |-> value]

\* create_file_object: os.path.getsize raises on a file that is gone
create_file_object(f) ==
    IF f.size = Vanished THEN NoEntry
    ELSE Made([filename |-> f.filename,
               size |-> f.size,
               file_type |-> get_file_type(SplitExt(f.filename)[2]),
               extension |-> SplitExt(f.filename)[2]])

\* process_directory_entry's loop from file i on: file_objects, total_size
RECURSIVE DirectoryFilesFrom(_, _, _, _)
DirectoryFilesFrom(files, i, file_objects, total_size) ==
    IF i > Len(files)
    THEN Made([files |-> file_objects, total_size |-> total_size])
    ELSE LET file_obj == create_file_object(files[i])
         IN  IF file_obj.raised THEN NoEntry
             ELSE DirectoryFilesFrom(files, i + 1,
                                     Append(file_objects, file_obj.value),
                                     total_size + file_obj.value.size)

\* a directory entry that holds the directory's disk images only
DirectoryEntryOfDisks(dir) ==
    LET d == DirectoryFilesFrom(SelectSeq(dir.files, IsQcow2), 1, <<>>, 0)
    IN  IF d.raised THEN NoEntry
        ELSE Made([id |-> 0,
                   name |-> <<dir.name>>,
                   type |-> "qemu",
                   files |-> d.value.files,
                   metadata |-> [total_size |-> d.value.total_size]])

\* a directory entry whose total counts the disk images only
DirectoryEntryDisksOnly(dir) ==
    LET r == DirectoryFilesFrom(dir.files, 1, <<>>, 0)
        disks == SelectSeq(dir.files, IsQcow2)
        d == DirectoryFilesFrom(disks, 1, <<>>, 0)
    IN  IF r.raised THEN NoEntry
        ELSE Made([id |-> 0,
                   name |-> <<dir.name>>,
                   type |-> "qemu",
                   files |-> r.value.files,
                   metadata |-> [total_size |-> d.value.total_size]])

\* an entry carries id 0 until an id is stamped on it
process_directory_entry(dir) ==
    LET r == DirectoryFilesFrom(dir.files, 1, <<>>, 0)
    IN  IF r.raised THEN NoEntry
        ELSE Made([id |-> 0,
                   name |-> <<dir.name>>,
                   type |-> "qemu",
                   files |-> r.value.files,
                   metadata |-> [total_size |-> r.value.total_size]])

process_single_file_entry(f) ==
    LET file_obj == create_file_object(f)
    IN  IF file_obj.raised THEN NoEntry
        ELSE Made([id |-> 0,
                   name |-> SplitExt(f.filename)[1],
                   type |-> "qemu",
                   files |-> <<file_obj.value>>,
                   metadata |-> [total_size |-> file_obj.value.size]])

\* the first pass of generate_directory_index
RECURSIVE CountEntries(_)
CountEntries(dirs) ==
    IF dirs = <<>> THEN 0
    ELSE (IF \E i \in DOMAIN dirs[1].files : IsQcow2(dirs[1].files[i])
          THEN 1
          ELSE Len(SelectSeq(dirs[1].files, IsArchive)))
         + CountEntries(Tail(dirs))

Min(a, b) == IF a < b THEN a ELSE b

\* for filename in files, from file i on, in a directory without disk
\* images: [raised, entries, count]
RECURSIVE ArchivesFrom(_, _, _, _, _)
ArchivesFrom(files, i, entries, count, total) ==
    IF i > Len(files) \/ count >= total
    THEN [raised |-> FALSE, entries |-> entries, count |-> count]
    ELSE IF ~IsArchive(files[i])
    THEN ArchivesFrom(files, i + 1, entries, count, total)
    ELSE LET file_entry == process_single_file_entry(files[i])
         IN  IF file_entry.raised
             THEN [raised |-> TRUE, entries |-> entries, count |-> count]
             ELSE ArchivesFrom(files, i + 1, Append(entries, file_entry.value),
                               count + 1, total)

\* generate_file_entry and main_entry of generate_dynamips_entries
DynamipsEntry(f, processed) ==
    [id |-> processed + 1,
     name |-> f.filename,
     type |-> "dynamips",
     files |-> <<[filename |-> f.filename,
                  size |-> f.size,
                  file_type |-> "firmware",
                  extension |-> SplitExt(f.filename)[2]]>>,
     metadata |-> [total_size |-> f.size]]

\* image_files = [f for f in os.listdir(absolute_dir) if f.endswith('.image')]
image_files == SelectSeq(walk[1].files, IsImage)

\* The directories the scans are tried on
KiB == 1024

QemuDirPool ==
    {Dir("disk1", <<OnDisk(<<"a", ".qcow2">>, KiB), OnDisk(<<"b", ".qcow2">>, 2 * KiB)>>),
     Dir("arch", <<OnDisk(<<"x", ".tgz">>, 2 * KiB)>>),
     Dir("arch2", <<OnDisk(<<"x", ".tar", ".gz">>, KiB), OnDisk(<<"y", ".zip">>, 2 * KiB)>>),
     Dir("mixed", <<OnDisk(<<"a", ".qcow2">>, KiB), OnDisk(<<"x", ".tgz">>, 2 * KiB),
                    OnDisk(<<"readme", ".yml">>, 16)>>),
     Dir("docs", <<OnDisk(<<"readme", ".yml">>, 16)>>),
     Dir("empty", <<>>),
     Dir("Beta", <<OnDisk(<<"B", ".qcow2">>, KiB)>>),
     Dir("gone", <<OnDisk(<<"a", ".qcow2">>, KiB), OnDisk(<<"b", ".qcow2">>, Vanished)>>),
     Dir("garch", <<OnDisk(<<"x", ".tgz">>, Vanished), OnDisk(<<"y", ".zip">>, KiB)>>)}

ImagePool ==
    {OnDisk(<<"c3725", ".image">>, KiB),
     OnDisk(<<"c7200", ".image">>, 2 * KiB),
     OnDisk(<<"c1710", ".image">>, Vanished),
     OnDisk(<<"index", ".py">>, 16)}

IdleScan ==
    /\ scanner = "qemu"
    /\ walk = <<>>
    /\ truncate = NoTruncate
    /\ scanPc = "done"
    /\ scanIdx = 1
    /\ total_entries = 0
    /\ entry_count = 0
    /\ index_entries = <<>>
    /\ full_schema = <<>>

InitScan ==
    /\ scanner \in {"qemu", "dynamips"}
    /\ walk \in IF scanner = "qemu"
                THEN SeqsUpTo(QemuDirPool, MaxDirs)
                ELSE {<<Dir("dynamips", files)>> :
                         files \in SeqsUpTo(ImagePool, MaxImages)}
    /\ truncate \in {NoTruncate} \cup 0..MaxTruncate
    /\ scanPc = IF scanner = "qemu" THEN "count" ELSE "walk"
    /\ scanIdx = 1
    /\ total_entries = 0
    /\ entry_count = 0
    /\ index_entries = <<>>
    /\ full_schema = <<>>

\* generate_directory_index: the first pass and the truncation of its count
QemuCount ==
    /\ scanner = "qemu"
    /\ scanPc = "count"
    /\ total_entries' = IF truncate = NoTruncate THEN CountEntries(walk)
                        ELSE Min(CountEntries(walk), truncate)
    /\ scanPc' = "walk"
    /\ UNCHANGED <<scanner, walk, truncate, scanIdx, entry_count, index_entries,
                   full_schema, sortVars, rwVars, migVars, dupVars, lkVars,
                   sizeVars, idxVars>>

\* generate_directory_index: one turn of the second os.walk loop.  An
\* exception of an entry builder is caught nowhere and ends the script.
QemuWalk ==
    /\ scanner = "qemu"
    /\ scanPc = "walk"
    /\ IF scanIdx > Len(walk) \/ entry_count >= total_entries
       THEN /\ scanPc' = "done"
            /\ UNCHANGED <<scanIdx, entry_count, index_entries>>
       ELSE LET dir == walk[scanIdx]
            IN  IF \E i \in DOMAIN dir.files : IsQcow2(dir.files[i])
                THEN LET dir_entry == process_directory_entry(dir)
                     IN  IF dir_entry.raised
                         THEN /\ scanPc' = "crashed"
                              /\ UNCHANGED <<scanIdx, entry_count, index_entries>>
                         ELSE /\ index_entries' = Append(index_entries, dir_entry.value)
                              /\ entry_count' = entry_count + 1
                              /\ scanIdx' = scanIdx + 1
                              /\ scanPc' = IF entry_count + 1 >= total_entries
                                           THEN "done" ELSE "walk"
                ELSE LET r == ArchivesFrom(dir.files, 1, index_entries,
                                           entry_count, total_entries)
                     IN  /\ index_entries' = r.entries
                         /\ entry_count' = r.count
                         /\ scanPc' = IF r.raised THEN "crashed" ELSE "walk"
                         /\ scanIdx' = scanIdx + 1
    /\ UNCHANGED <<scanner, walk, truncate, total_entries, full_schema,
                   sortVars, rwVars, migVars, dupVars, lkVars,
                   sizeVars, idxVars>>

\* generate_dynamips_entries: one turn of the loop over image_files.  The
\* try around getsize skips a file that is gone.
DynamipsStep ==
    /\ scanner = "dynamips"
    /\ scanPc = "walk"
    /\ IF scanIdx > Len(image_files)
       THEN /\ scanPc' = "done"
            /\ UNCHANGED <<scanIdx, entry_count, index_entries>>
       ELSE IF truncate # NoTruncate /\ truncate # 0 /\ entry_count >= truncate
       THEN /\ scanPc' = "done"
            /\ UNCHANGED <<scanIdx, entry_count, index_entries>>
       ELSE LET f == image_files[scanIdx]
            IN  /\ scanIdx' = scanIdx + 1
                /\ UNCHANGED scanPc
                /\ IF f.size = Vanished
                   THEN UNCHANGED <<entry_count, index_entries>>
                   ELSE /\ index_entries' = Append(index_entries,
                                                   DynamipsEntry(f, entry_count))
                        /\ entry_count' = entry_count + 1
    /\ UNCHANGED <<scanner, walk, truncate, total_entries, full_schema,
                   sortVars, rwVars, migVars, dupVars, lkVars,
                   sizeVars, idxVars>>


\* the code points of the tokens names are made of
Chars(token) ==
    CASE token = "disk1" -> <<100, 105, 115, 107, 49>>
      [] token = "arch"  -> <<97, 114, 99, 104>>
      [] token = "arch2" -> <<97, 114, 99, 104, 50>>
      [] token = "mixed" -> <<109, 105, 120, 101, 100>>
      [] token = "gone"  -> <<103, 111, 110, 101>>
      [] token = "garch" -> <<103, 97, 114, 99, 104>>
      [] token = "Beta"  -> <<66, 101, 116, 97>>
      [] token = "x"     -> <<120>>
      [] token = "y"     -> <<121>>
      [] token = ".tar"  -> <<46, 116, 97, 114>>
      [] OTHER           -> <<63>>

RECURSIVE NameChars(_)
NameChars(name) ==
    IF name = <<>> THEN <<>> ELSE Chars(name[1]) \o NameChars(Tail(name))

\* key=lambda x: x['name'].lower()
LowerNameKey(entry) == Lower(NameChars(entry.name))

\* sorted(..., key=...) is stable
RECURSIVE InsertByLowerName(_, _)
InsertByLowerName(sorted, e) ==
    IF sorted = <<>> THEN <<e>>
    ELSE IF StrLess(LowerNameKey(e), LowerNameKey(sorted[1]))
         THEN <<e>> \o sorted
         ELSE <<sorted[1]>> \o InsertByLowerName(Tail(sorted), e)

RECURSIVE SortedByLowerName(_)
SortedByLowerName(entries) ==
    IF entries = <<>> THEN <<>>
    ELSE InsertByLowerName(SortedByLowerName(SubSeq(entries, 1, Len(entries) - 1)),
                           entries[Len(entries)])

\* generate_full_schema of scripts/qemu/index.py: the "images" it returns
QemuFullSchemaImages(index_data) ==
    LET sorted_entries == SortedByLowerName(index_data)
    IN  [idx \in DOMAIN sorted_entries |-> [sorted_entries[idx] EXCEPT !.id = idx]]

\* generate_full_schema of scripts/dynamips/index.py: the "images" it returns
DynamipsFullSchemaImages(dynamips_entries) == dynamips_entries

\* the __main__ block after the scan: generate_full_schema and the dump of
\* the family catalog
WriteCatalog ==
    /\ scanPc = "done"
    /\ full_schema' = IF scanner = "qemu" THEN QemuFullSchemaImages(index_entries)
                      ELSE DynamipsFullSchemaImages(index_entries)
    /\ scanPc' = "written"
    /\ UNCHANGED <<scanner, walk, truncate, scanIdx, total_entries, entry_count,
                   index_entries, sortVars, rwVars, migVars, dupVars, lkVars,
                   sizeVars, idxVars>>

----------------------------------------------------------------------------
(* scripts/qemu/index.py and scripts/dynamips/index.py: the size rendering *)

\* for unit in ['','Ki','Mi','Gi','Ti','Pi','Ei','Zi']
UNITS == <<"", "Ki", "Mi", "Gi", "Ti", "Pi", "Ei", "Zi">>

RECURSIVE Pow1024(_)
Pow1024(k) == IF k = 0 THEN 1 ELSE 1024 * Pow1024(k - 1)

\* The text "%3.1f %s%s" % (num, unit, suffix) as its parts: the digits
\* before the point, the digit after it, the unit and the suffix.  A byte
\* count has at least three characters "d.d", so the width 3 pads nothing.
Rendered(tenths, unit, suffix) ==
    [int |-> tenths \div 10, tenth |-> tenths % 10, unit |-> unit, suffix |-> suffix]

\* num / 1024.0 is exact on a float for a byte count, and %.1f rounds the
\* exact value to the nearest tenth, a tie to the even digit: the tenths of
\* n / d
RoundedTenths(n, d) ==
    LET whole == n \div d
        r == n % d
        a == (10 * r) \div d
        twice == 2 * ((10 * r) % d)
        down == 10 * whole + a
    IN  IF twice > d THEN down + 1
        ELSE IF twice < d THEN down
        ELSE IF down % 2 = 0 THEN down ELSE down + 1

\* the loop from unit k on, num being num_bytes / 1024^k
RECURSIVE FormatFrom(_, _, _)
FormatFrom(num_bytes, k, suffix) ==
    IF k > Len(UNITS)
    THEN Rendered(RoundedTenths(num_bytes, Pow1024(k - 1)), "Yi", suffix)
    ELSE IF num_bytes \div Pow1024(k - 1) < 1024
    THEN Rendered(RoundedTenths(num_bytes, Pow1024(k - 1)), UNITS[k], suffix)
    ELSE FormatFrom(num_bytes, k + 1, suffix)

\* convert_size_human_readable(num_bytes, suffix='B')
convert_size_human_readable(num_bytes) == FormatFrom(num_bytes, 1, "B")

\* sizeof_fmt(num, suffix='B')
sizeof_fmt(num) == FormatFrom(num, 1, "B")

\* The byte counts the renderings are tried on: around each power of 1024
\* up to 1024^3, with and without a fraction
ByteCounts ==
    {m * Pow1024(k) + d : m \in {1, 3, 1023}, k \in 0..2, d \in {0, 1, 51, 256, 768}}
    \cup {0, 1280, 1536, Pow1024(3), Pow1024(3) + 53687091}

IdleSize ==
    /\ hsScript = "qemu"
    /\ hsBytes = 0
    /\ hsOut = Rendered(0, "", "")
    /\ hsDone = FALSE

InitSize ==
    /\ hsScript \in {"qemu", "dynamips"}
    /\ hsBytes \in ByteCounts
    /\ hsOut = Rendered(0, "", "")
    /\ hsDone = FALSE

\* "human_size": convert_size_human_readable(file_size), and
\* "human_size": sizeof_fmt(size)
HumanSize ==
    /\ ~hsDone
    /\ hsOut' = IF hsScript = "qemu" THEN convert_size_human_readable(hsBytes)
                ELSE sizeof_fmt(hsBytes)
    /\ hsDone' = TRUE
    /\ UNCHANGED <<hsScript, hsBytes, sortVars, rwVars, migVars, dupVars, lkVars,
                   scanVars, idxVars>>

----------------------------------------------------------------------------
(* index.py: main, from run_indexing_scripts on *)

IMAGE_TYPES == <<"IOL", "QEMU", "DYNAMIPS">>

\* A JSON file: st is "missing", "invalid" (no JSON) or "ok".  A family
\* catalog that is "ok" has or lacks the key url_properties, its value a
\* dict as [k, v] pairs, and has or lacks the key images.
JsonFile(st, has_url, url, has_images, imgs) ==
    [st |-> st, has_url |-> has_url, url_properties |-> url,
     has_images |-> has_images, images |-> imgs]

NoJson == JsonFile("missing", FALSE, <<>>, FALSE, <<>>)
BadJson == JsonFile("invalid", FALSE, <<>>, FALSE, <<>>)

\* what one run of a family's index script does: its return code, and the
\* <family>.json it leaves
ScriptRun(returncode, json) == [returncode |-> returncode, json |-> json]

\* type_data.get('url_properties', {})
GetUrlProperties(type_data) ==
    IF type_data.has_url THEN type_data.url_properties ELSE <<>>

\* type_data.get('images', [])
GetImages(type_data) ==
    IF type_data.has_images THEN type_data.images ELSE <<>>

\* url_properties is None until a family catalog is read
None == [is_none |-> TRUE, value |-> <<>>]
Some(value) == [is_none |-> FALSE, value |-> value]

\* the loop of process_index_files from family i on: the first file that
\* cannot be opened or parsed ends the run (exit(1))
RECURSIVE MergeFrom(_, _, _, _)
MergeFrom(files, i, url_properties, merged_data) ==
    IF i > Len(IMAGE_TYPES)
    THEN [exited |-> FALSE, url_properties |-> url_properties,
          merged_data |-> merged_data]
    ELSE LET img_type == IMAGE_TYPES[i]
             type_data == files[img_type]
         IN  IF type_data.st # "ok"
             THEN [exited |-> TRUE, url_properties |-> url_properties,
                   merged_data |-> merged_data]
             ELSE MergeFrom(files, i + 1,
                            IF url_properties.is_none
                            THEN Some(GetUrlProperties(type_data))
                            ELSE url_properties,
                            Append(merged_data, GetImages(type_data)))

\* a value of the unified catalog: a string, the url_properties object or
\* a family's images
Value(t, url, imgs) == [t |-> t, url |-> url, images |-> imgs]

\* the family keys of the unified catalog in alphabetical order
FamilyKeysSorted(merged_data) ==
    <<Pair("DYNAMIPS", Value("list", None, merged_data[3])),
      Pair("IOL", Value("list", None, merged_data[1])),
      Pair("QEMU", Value("list", None, merged_data[2]))>>

\* *[(img_type, merged_data[img_type]) for img_type in IMAGE_TYPES]
FamilyKeys(merged_data) ==
    [i \in DOMAIN IMAGE_TYPES |->
        Pair(IMAGE_TYPES[i], Value("list", None, merged_data[i]))]

\* final_schema
FinalSchema(url_properties, merged_data) ==
    <<Pair("schema_version", Value("str", None, <<>>)),
      Pair("description", Value("str", None, <<>>)),
      Pair("last_update", Value("str", None, <<>>)),
      Pair("url_properties", Value("obj", url_properties, <<>>))>>
    \o FamilyKeys(merged_data)

\* no labhub.json
NotWritten == <<>>

\* The runs index.py is tried on.  A family's own hostnames stand for its
\* url_properties.
UrlOf(family) == <<Pair("hostnames", family)>>
Image(id, name) == [id |-> id, name |-> name]

ImageSeqs == {<<>>, <<Image(1, "r1")>>, <<Image(1, "r2"), Image(2, "r1")>>}

CatalogsOf(family) ==
    {JsonFile("ok", TRUE, url, TRUE, imgs) :
        url \in {<<>>, UrlOf(family)}, imgs \in ImageSeqs}
    \cup {JsonFile("ok", FALSE, <<>>, TRUE, <<Image(1, "r1")>>),
          JsonFile("ok", TRUE, UrlOf(family), FALSE, <<>>)}

\* a run that fails leaves no JSON; one that succeeds leaves a catalog, or
\* nothing that can be copied or read
RunsOf(family) ==
    {ScriptRun(1, NoJson), ScriptRun(0, NoJson), ScriptRun(0, BadJson)}
    \cup {ScriptRun(0, json) : json \in CatalogsOf(family)}

Folder(script, json) == [script |-> script, json |-> json]

IdleIndex ==
    /\ idxPc = "idle"
    /\ img_i = 1
    /\ scripts = [t \in Range(IMAGE_TYPES) |-> ScriptRun(0, NoJson)]
    /\ run_results = <<>>
    /\ repo = [t \in Range(IMAGE_TYPES) |-> Folder(FALSE, NoJson)]
    /\ dist = [t \in Range(IMAGE_TYPES) |-> NoJson]
    /\ labhub = NotWritten

\* after validate_directory_structure and copy_index_scripts: every family
\* directory holds its index.py
InitIndex ==
    /\ idxPc = "index"
    /\ img_i = 1
    /\ scripts \in {[t \in Range(IMAGE_TYPES) |->
                        IF t = "IOL" THEN a ELSE IF t = "QEMU" THEN b ELSE c] :
                       a \in RunsOf("IOL"), b \in RunsOf("QEMU"),
                       c \in RunsOf("DYNAMIPS")}
    /\ run_results = <<>>
    /\ repo = [t \in Range(IMAGE_TYPES) |-> Folder(TRUE, NoJson)]
    /\ dist = [t \in Range(IMAGE_TYPES) |-> NoJson]
    /\ labhub = NotWritten

\* process_index_files started with the first family indexed
MergeAtOnce(i) == "merge"

\* main calls process_index_files when run_indexing_scripts has returned,
\* which it does after the turn of the last family
AfterFamily(i) == IF i = Len(IMAGE_TYPES) THEN "merge" ELSE "index"

\* the __main__ block's handler of KeyboardInterrupt: cleanup_leftovers,
\* then exit(1)
KeyboardInterrupt ==
    /\ idxPc \in {"index", "merge", "finish"}
    /\ repo' = [t \in Range(IMAGE_TYPES) |-> Folder(FALSE, NoJson)]
    /\ idxPc' = "interrupted"
    /\ UNCHANGED <<img_i, scripts, run_results, dist, labhub, sortVars, rwVars,
                   migVars, dupVars, lkVars, scanVars, sizeVars>>

\* run_indexing_scripts: one turn of the loop over IMAGE_TYPES.  exit(1)
\* raises SystemExit, which the handlers of the __main__ block (for
\* KeyboardInterrupt and Exception) do not catch.
RunIndexing ==
    /\ idxPc = "index"
    /\ LET img_type == IMAGE_TYPES[img_i]
           result == scripts[img_type]
       IN  /\ run_results' = run_results @@ (img_type :> result.returncode)
           /\ repo' = [repo EXCEPT ![img_type].json = result.json]
           /\ IF result.returncode # 0
              THEN /\ idxPc' = "exited"
                   /\ UNCHANGED <<img_i, dist>>
              ELSE IF result.json.st = "missing"
              THEN /\ idxPc' = "exited"
                   /\ UNCHANGED <<img_i, dist>>
              ELSE /\ dist' = [dist EXCEPT ![img_type] = result.json]
                   /\ img_i' = img_i + 1
                   /\ idxPc' = AfterFamily(img_i)
    /\ UNCHANGED <<scripts, labhub, sortVars, rwVars, migVars, dupVars, lkVars,
                   scanVars, sizeVars>>

\* process_index_files
ProcessIndexFiles ==
    /\ idxPc = "merge"
    /\ LET r == MergeFrom([t \in Range(IMAGE_TYPES) |-> repo[t].json], 1, None, <<>>)
       IN  IF r.exited
           THEN /\ idxPc' = "exited"
                /\ UNCHANGED labhub
           ELSE /\ labhub' = FinalSchema(r.url_properties, r.merged_data)
                /\ idxPc' = "finish"
    /\ UNCHANGED <<img_i, scripts, run_results, repo, dist, sortVars, rwVars,
                   migVars, dupVars, lkVars, scanVars, sizeVars>>

\* the rest of main: get_indexed_counts and show_results_table change
\* nothing; cleanup_leftovers removes every index.py and <family>.json it
\* finds in the family directories
CleanupLeftovers ==
    /\ idxPc = "finish"
    /\ repo' = [t \in Range(IMAGE_TYPES) |-> Folder(FALSE, NoJson)]
    /\ idxPc' = "done"
    /\ UNCHANGED <<img_i, scripts, run_results, dist, labhub, sortVars, rwVars,
                   migVars, dupVars, lkVars, scanVars, sizeVars>>

----------------------------------------------------------------------------
(* Specifications: one script runs, the others are idle *)

SortInit ==
    InitSort /\ IdleRewrite /\ IdleMirror /\ IdleDupes /\ IdleLookup /\ IdleScan
    /\ IdleSize /\ IdleIndex

SpecSort == SortInit /\ [][process_file]_vars

RewriteInit ==
    IdleSort /\ InitRewrite /\ IdleMirror /\ IdleDupes /\ IdleLookup /\ IdleScan
    /\ IdleSize /\ IdleIndex

SpecRewrite == RewriteInit /\ [][UpdateUrls]_vars

MirrorInit ==
    IdleSort /\ IdleRewrite /\ InitMirror /\ IdleDupes /\ IdleLookup /\ IdleScan
    /\ IdleSize /\ IdleIndex

NextMirror == VerifyStep \/ MigrateStep

SpecMirror == MirrorInit /\ [][NextMirror]_vars

\* gen_mirrors.py with the directory changing under it
NextMirrorEnv == VerifyStep \/ MigrateStep \/ IndexFileLost \/ MirrorWriteFails

SpecMirrorEnv == MirrorInit /\ [][NextMirrorEnv]_vars

DupesInit ==
    IdleSort /\ IdleRewrite /\ IdleMirror /\ InitDupes /\ IdleLookup /\ IdleScan
    /\ IdleSize /\ IdleIndex

SpecDupes == DupesInit /\ [][CheckDuplicates]_vars

LookupInit ==
    IdleSort /\ IdleRewrite /\ IdleMirror /\ IdleDupes /\ InitLookup /\ IdleScan
    /\ IdleSize /\ IdleIndex

SpecLookup == LookupInit /\ [][LookupHash]_vars

ScanInit ==
    IdleSort /\ IdleRewrite /\ IdleMirror /\ IdleDupes /\ IdleLookup /\ InitScan
    /\ IdleSize /\ IdleIndex

NextScan == QemuCount \/ QemuWalk \/ DynamipsStep \/ WriteCatalog

SpecScan == ScanInit /\ [][NextScan]_vars

SizeInit ==
    IdleSort /\ IdleRewrite /\ IdleMirror /\ IdleDupes /\ IdleLookup /\ IdleScan
    /\ InitSize /\ IdleIndex

SpecSize == SizeInit /\ [][HumanSize]_vars

IndexInit ==
    IdleSort /\ IdleRewrite /\ IdleMirror /\ IdleDupes /\ IdleLookup /\ IdleScan
    /\ IdleSize /\ InitIndex

NextIndex == RunIndexing \/ ProcessIndexFiles \/ CleanupLeftovers \/ KeyboardInterrupt

SpecIndex == IndexInit /\ [][NextIndex]_vars

\* The three stages that read a catalog file, each run on a file of its
\* own that is a catalog or is no JSON: sort.py, check_dupes.py and index.py
\* with the catalogs its index scripts leave
StagesInit ==
    /\ sortFile \in {InvalidCatalog,
                     FlatCatalog(<<Entry(0, Name_B, 1), Entry(0, Name_a, 1)>>)}
    /\ sortOrig = sortFile
    /\ sortFirst = sortFile
    /\ sortRuns = 0
    /\ sortOk = FALSE
    /\ dupFile \in {"json", "invalid"}
    /\ json_data = IF dupFile = "json"
                   THEN MergedCatalog(Present(<<DupEntry(Name_Ro, <<File("m1", "s1")>>),
                                                DupEntry(Name_Ro, <<File("m1", "s1")>>)>>),
                                      Absent, Absent)
                   ELSE MergedCatalog(Absent, Absent, Absent)
    /\ results = <<>>
    /\ dupReport = FALSE
    /\ dupDone = FALSE
    /\ idxPc = "index"
    /\ img_i = 1
    /\ scripts \in [Range(IMAGE_TYPES) ->
                       {ScriptRun(0, BadJson),
                        ScriptRun(0, JsonFile("ok", TRUE, UrlOf("IOL"), TRUE,
                                              <<Image(1, "r1")>>))}]
    /\ run_results = <<>>
    /\ repo = [t \in Range(IMAGE_TYPES) |-> Folder(TRUE, NoJson)]
    /\ dist = [t \in Range(IMAGE_TYPES) |-> NoJson]
    /\ labhub = NotWritten
    /\ IdleRewrite /\ IdleMirror /\ IdleLookup /\ IdleScan /\ IdleSize

NextStages == process_file \/ CheckDuplicates \/ NextIndex

SpecStages == StagesInit /\ [][NextStages]_vars

----------------------------------------------------------------------------
(* Claims about sort.py, under SpecSort *)

\* the entry sequences of a catalog: the flat list, or every list under a key
EntryLists(data) ==
    IF data.t = "list" THEN {data.items}
    ELSE {data.pairs[i].v.items : i \in {j \in DOMAIN data.pairs :
                                            data.pairs[j].v.t = "list"}}

Names(entries) == [i \in DOMAIN entries |-> DictGet(entries[i], "name")]

\* how often x occurs in sequence s
Occurrences(s, x) == Cardinality({i \in DOMAIN s : s[i] = x})

SameBag(s, t) ==
    /\ Len(s) = Len(t)
    /\ \A x \in Range(s) \cup Range(t) : Occurrences(s, x) = Occurrences(t, x)

SortRan == sortRuns >= 1 /\ sortOk

\* C1: after a run of the Sort & ID Assigner the entry at sorted position k
\* has id k, whatever id it carried before.
C1_IdsAreRanks ==
    SortRan =>
        \A entries \in EntryLists(sortFile) : \A k \in DOMAIN entries :
            DictGet(entries[k], "id") = <<k>>

\* C2: process_file is idempotent: a second run (and any later one) leaves
\* the file as the first run left it: same entry order, ids and field order.
C2_Idempotent == sortRuns >= 2 => sortFile = sortFirst

\* C2 witness: a second run has followed a first run that succeeded and
\* changed the file.
C2_Witness ==
    /\ sortRuns = 2
    /\ sortOk
    /\ sortFirst # sortOrig
    /\ \E entries \in EntryLists(sortFile) : Len(entries) >= 2

\* C3: after a run the entries are in case-insensitive name order, and the
\* stored names are those of the input.
C3_CaseInsensitiveOrder ==
    (SortRan /\ sortFile.t = "list") =>
        /\ \A i, j \in DOMAIN sortFile.items :
              i < j => ~StrLess(Lower(SortKey(sortFile.items[j])),
                                Lower(SortKey(sortFile.items[i])))
        /\ SameBag(Names(sortFile.items), Names(sortOrig.items))

IsUnified(data) ==
    /\ data.t = "dict"
    /\ DictHas(data.pairs, "schema_version")
    /\ IsStructured(data)

IsFamilyKey(k) == \E i \in DOMAIN FAMILY_KEYS : FAMILY_KEYS[i] = k

\* C4: a run on the Merger's unified catalog succeeds, sorts every family's
\* entries with ids restarting at 1, and leaves the other keys as they were.
C4_UnifiedCatalogSorted ==
    (sortRuns >= 1 /\ IsUnified(sortOrig)) =>
        /\ sortOk
        /\ \A i \in DOMAIN sortFile.pairs :
              IF IsFamilyKey(sortFile.pairs[i].k)
              THEN LET entries == sortFile.pairs[i].v.items
                   IN  /\ SameBag(Names(entries),
                                  Names(sortOrig.pairs[i].v.items))
                       /\ \A k \in DOMAIN entries :
                             /\ DictGet(entries[k], "id") = <<k>>
                             /\ k > 1 => ~StrLess(SortKey(entries[k]),
                                                  SortKey(entries[k - 1]))
              ELSE sortFile.pairs[i] = sortOrig.pairs[i]

\* an entry without its id field
RECURSIVE WithoutId(_)
WithoutId(entry) ==
    IF entry = <<>> THEN <<>>
    ELSE IF entry[1].k = "id" THEN WithoutId(Tail(entry))
         ELSE <<entry[1]>> \o WithoutId(Tail(entry))

\* the entries of a list that carry this name, in the list's order, without
\* their ids
RECURSIVE NamedAs(_, _)
NamedAs(entries, name) ==
    IF entries = <<>> THEN <<>>
    ELSE (IF SortKey(entries[1]) = name THEN <<WithoutId(entries[1])>> ELSE <<>>)
         \o NamedAs(Tail(entries), name)

\* every entry list of the file, before the first run and now
ListsBeforeAndNow ==
    IF sortFile.t = "list" THEN {<<sortOrig.items, sortFile.items>>}
    ELSE {<<sortOrig.pairs[i].v.items, sortFile.pairs[i].v.items>> :
             i \in {j \in DOMAIN sortFile.pairs : sortFile.pairs[j].v.t = "list"}}

\* C15: the sort is stable: in every list of the file, the entries whose
\* names are equal are, after a run, in the order they had before it.
C15_SortIsStable ==
    SortRan =>
        \A p \in ListsBeforeAndNow : \A i \in DOMAIN p[1] :
            NamedAs(p[2], SortKey(p[1][i])) = NamedAs(p[1], SortKey(p[1][i]))

\* C15 witness: a run has sorted a list in which two entries that differ
\* carry the same name.
C15_Witness ==
    /\ SortRan
    /\ sortFile.t = "list"
    /\ \E i, j \in DOMAIN sortOrig.items :
          /\ i < j
          /\ SortKey(sortOrig.items[i]) = SortKey(sortOrig.items[j])
          /\ WithoutId(sortOrig.items[i]) # WithoutId(sortOrig.items[j])
          /\ WithoutId(sortFile.items[i]) = WithoutId(sortOrig.items[i])


----------------------------------------------------------------------------
(* Claims about gen_mirrors.py, under SpecRewrite and SpecMirror *)

\* b is a apart from strings that contain the old prefix and are stored
\* under the key "url" (underUrl: a is the value of such a key)
RECURSIVE OnlyUrlStringsDiffer(_, _, _)
OnlyUrlStringsDiffer(a, b, underUrl) ==
    IF a.t = "str"
    THEN /\ b.t = "str"
         /\ b.kids = <<>>
         /\ b.s = a.s \/ (underUrl /\ Contains(a.s, OLD_BASE_URL))
    ELSE IF a.t = "num" THEN b = a
    ELSE /\ b.t = a.t
         /\ b.s = a.s
         /\ Len(b.kids) = Len(a.kids)
         /\ \A i \in DOMAIN a.kids :
               /\ b.kids[i].k = a.kids[i].k
               /\ OnlyUrlStringsDiffer(a.kids[i].v, b.kids[i].v,
                                       a.t = "dict" /\ a.kids[i].k = "url")

\* C5: update_urls_in_data changes a tree only at string values under a key
\* named "url" that contain the old prefix; all else is as it was.
C5_OnlyUrlStringsChange == rwDone => OnlyUrlStringsDiffer(rwIn, rwOut, FALSE)

\* C5 witness: a run changed a tree that also holds the old prefix in a
\* string that is not under "url", nested in a member of the root.
C5_Witness ==
    /\ rwDone
    /\ rwOut # rwIn
    /\ \E i \in DOMAIN rwIn.kids : \E j \in DOMAIN rwIn.kids[i].v.kids :
          /\ rwIn.kids[i].v.kids[j].k # "url"
          /\ rwIn.kids[i].v.kids[j].v = StrNode(UrlTwice)
          /\ rwOut.kids[i].v.kids[j] = rwIn.kids[i].v.kids[j]

\* C6: the rewriter never writes a file it reads: every name it has opened
\* for writing is none of the index files, and every index file holds what
\* it held before the run.
C6_InputNeverModified ==
    /\ written \cap Range(INDEX_FILES) = {}
    /\ \A i \in DOMAIN INDEX_FILES : fs[INDEX_FILES[i]] = fs0[INDEX_FILES[i]]

\* C6 witness: a run wrote all four mirrors, one of them with a rewritten
\* url, so differing from the index file it was made from.
C6_Witness ==
    /\ migPc = "done"
    /\ migOk
    /\ Cardinality(written) = Len(INDEX_FILES)
    /\ \E i \in DOMAIN INDEX_FILES :
          fs[MirrorName(INDEX_FILES[i])] # fs0[INDEX_FILES[i]]

\* s with its first occurrence of old replaced by new and the rest left
RECURSIVE ReplaceFirst(_, _, _)
ReplaceFirst(s, old, new) ==
    IF Len(s) < Len(old) THEN s
    ELSE IF SubSeq(s, 1, Len(old)) = old
         THEN new \o SubSeq(s, Len(old) + 1, Len(s))
         ELSE <<s[1]>> \o ReplaceFirst(Tail(s), old, new)

\* C16: a url string has its first occurrence of the old prefix replaced and
\* any later occurrence in the same string left as it was.
C16_FirstOccurrenceOnly ==
    (rwDone /\ rwIn.t = "dict") =>
        \A i \in DOMAIN rwIn.kids :
            (rwIn.kids[i].k = "url" /\ rwIn.kids[i].v.t = "str") =>
                rwOut.kids[i].v.s =
                    ReplaceFirst(rwIn.kids[i].v.s, OLD_BASE_URL, NEW_BASE_URL)


----------------------------------------------------------------------------
(* Claims about utils/check_dupes.py, under SpecDupes *)

PresentTypes == {t \in Range(DEVICE_TYPES) : json_data[t].present}

\* how many entries of a family carry exactly this name
NameCount(t, name) ==
    Cardinality({i \in DOMAIN json_data[t].entries :
                    json_data[t].entries[i].name = name})

\* how many entries of a family carry this name up to case
FoldedCount(t, name) ==
    Cardinality({i \in DOMAIN json_data[t].entries :
                    Lower(json_data[t].entries[i].name) = Lower(name)})

NamesOf(t) == {json_data[t].entries[i].name : i \in DOMAIN json_data[t].entries}

\* C7: for every family in the catalog, a name is in duplicate_names exactly
\* when at least two of that family's entries carry it, and its value is
\* the number of that family's entries that carry it.
C7_DuplicateNamesExact ==
    dupDone =>
        /\ DOMAIN results = PresentTypes
        /\ \A t \in PresentTypes :
              LET dn == results[t].duplicate_names
              IN  /\ DOMAIN dn = {n \in NamesOf(t) : NameCount(t, n) >= 2}
                  /\ \A n \in DOMAIN dn : dn[n] = NameCount(t, n)

\* C7 witness: a family has a name twice and a name once, and another
\* family in the catalog has the first name too, once.
C7_Witness ==
    /\ dupDone
    /\ \E t, u \in PresentTypes : \E n, m \in NamesOf(t) :
          /\ t # u
          /\ NameCount(t, n) = 2
          /\ NameCount(t, m) = 1
          /\ NameCount(u, n) = 1
          /\ results[t].duplicate_names[n] = 2
          /\ DOMAIN results[u].duplicate_names = {}

\* C8: names are compared case-insensitively: entries of one family whose
\* names differ in case only are reported as one duplicated name, under one
\* of the stored forms, with the count of all of them.
C8_CaseInsensitiveNames ==
    dupDone =>
        \A t \in PresentTypes : \A n \in NamesOf(t) :
            FoldedCount(t, n) >= 2 =>
                \E key \in DOMAIN results[t].duplicate_names :
                    /\ Lower(key) = Lower(n)
                    /\ results[t].duplicate_names[key] = FoldedCount(t, n)

\* the files of a family, as <<entry, file>> positions
FilesOf(t) ==
    UNION {{<<i, j>> : j \in DOMAIN json_data[t].entries[i].files} :
              i \in DOMAIN json_data[t].entries}

\* how many files of a family carry this checksum of this kind
FileCount(t, kind, value) ==
    Cardinality({p \in FilesOf(t) :
        json_data[t].entries[p[1]].files[p[2]].checksum[kind] = value})

ChecksumsOf(t, kind) ==
    {json_data[t].entries[p[1]].files[p[2]].checksum[kind] : p \in FilesOf(t)}

\* C17: for every family in the catalog, a checksum value, the empty string
\* included, is in duplicate_md5 (duplicate_sha1) exactly when at least two
\* files of the family carry it, files of one entry included, and its value
\* is the number of files that carry it.
C17_ChecksumsPerFile ==
    dupDone =>
        \A t \in PresentTypes :
            /\ DOMAIN results[t].duplicate_md5
                  = {v \in ChecksumsOf(t, "md5") : FileCount(t, "md5", v) >= 2}
            /\ \A v \in DOMAIN results[t].duplicate_md5 :
                  results[t].duplicate_md5[v] = FileCount(t, "md5", v)
            /\ DOMAIN results[t].duplicate_sha1
                  = {v \in ChecksumsOf(t, "sha1") : FileCount(t, "sha1", v) >= 2}
            /\ \A v \in DOMAIN results[t].duplicate_sha1 :
                  results[t].duplicate_sha1[v] = FileCount(t, "sha1", v)

\* C17 witness: the only files of a family with an empty checksum are the
\* two files of one entry, and the empty string is reported with count 2;
\* another checksum is on one file of each of two entries.
C17_Witness ==
    /\ dupDone
    /\ \E t \in PresentTypes :
          /\ \E i \in DOMAIN json_data[t].entries :
                /\ Len(json_data[t].entries[i].files) = 2
                /\ \A j \in 1..2 : json_data[t].entries[i].files[j].checksum.md5 = ""
          /\ FileCount(t, "md5", "") = 2
          /\ results[t].duplicate_md5[""] = 2
          /\ FileCount(t, "sha1", "s1") = 2
          /\ results[t].duplicate_sha1["s1"] = 2


----------------------------------------------------------------------------
(* Claims about lookup_hash, under SpecLookup *)

\* the manifest the call reads, if there is one
HasManifest == lkType \in DOMAIN manifests /\ manifests[lkType].exists

\* line has a hash column and a path column (the text before and after its
\* leftmost two spaces, the line taken without its outer blanks), and the
\* path column is the path looked up
LineGives(line, hash) ==
    LET l == Strip(line)
    IN  \E i \in 1..(Len(l) - 1) :
          /\ l[i] = " " /\ l[i + 1] = " "
          /\ \A j \in 1..(i - 1) : ~(l[j] = " " /\ l[j + 1] = " ")
          /\ hash = SubSeq(l, 1, i - 1)
          /\ Column(lkScript, SubSeq(l, i + 2, Len(l))) = lkPath

HashesFor ==
    IF HasManifest
    THEN {h \in SeqsUpTo({"h", "g"}, 1) :
             \E i \in DOMAIN manifests[lkType].lines :
                 LineGives(manifests[lkType].lines[i], h)}
    ELSE {}

\* C9: lookup_hash never raises; it returns "" when there is no manifest
\* and when no line of the manifest has the path, otherwise the hash of a
\* line that has it; the manifests are as they were.
C9_LookupTotal ==
    lkDone =>
        /\ ~lkOut.raised
        /\ manifests = manifests0
        /\ IF HashesFor = {} THEN lkOut.value = <<>>
           ELSE lkOut.value \in HashesFor

\* C9 witness: the path is on the second line of a manifest whose first
\* line is skipped or is another path's, and its hash was returned.
C9_Witness ==
    /\ lkDone
    /\ HasManifest
    /\ Len(manifests[lkType].lines) >= 2
    /\ HashesFor # {}
    /\ ~\E h \in HashesFor : LineGives(manifests[lkType].lines[1], h)
    /\ lkOut.value \in HashesFor

----------------------------------------------------------------------------
(* Claims about the scans, under SpecScan *)

\* the sum of the size fields of a sequence of file records
RECURSIVE SumOfSizes(_)
SumOfSizes(files) ==
    IF files = <<>> THEN 0 ELSE files[1].size + SumOfSizes(Tail(files))

\* C10: every entry a scanner has produced (QEMU directory entry, QEMU
\* single-file entry, DYNAMIPS entry) has metadata.total_size equal to the
\* sum of the sizes of its files.
C10_TotalSizeIsSum ==
    \A k \in DOMAIN index_entries :
        index_entries[k].metadata.total_size = SumOfSizes(index_entries[k].files)

\* C10 witness: a finished QEMU scan returned a directory entry of three
\* files, not all disk images, and a single-file entry.
C10_Witness ==
    /\ scanPc = "done"
    /\ \E k \in DOMAIN index_entries :
          /\ Len(index_entries[k].files) = 3
          /\ index_entries[k].metadata.total_size = 3 * KiB + 16
    /\ \E k \in DOMAIN index_entries :
          /\ Len(index_entries[k].files) = 1
          /\ index_entries[k].metadata.total_size = 2 * KiB

\* what an entry is made of: its name and the names of its files
Shape(entry) ==
    [name |-> entry.name,
     filenames |-> [i \in DOMAIN entry.files |-> entry.files[i].filename]]

HasDisk(dir) == \E i \in DOMAIN dir.files : IsQcow2(dir.files[i])

\* one shape per archive of a directory, in the directory's order
RECURSIVE ArchiveShapes(_)
ArchiveShapes(files) ==
    IF files = <<>> THEN <<>>
    ELSE (IF IsArchive(files[1])
          THEN <<[name |-> SplitExt(files[1].filename)[1],
                  filenames |-> <<files[1].filename>>]>>
          ELSE <<>>)
         \o ArchiveShapes(Tail(files))

\* the grouping of the listed files into assets: a directory with a disk
\* image is one asset of all its files, any other directory gives one asset
\* per archive
RECURSIVE Grouping(_)
Grouping(dirs) ==
    IF dirs = <<>> THEN <<>>
    ELSE (IF HasDisk(dirs[1])
          THEN <<[name |-> <<dirs[1].name>>,
                  filenames |-> [i \in DOMAIN dirs[1].files |->
                                    dirs[1].files[i].filename]]>>
          ELSE ArchiveShapes(dirs[1].files))
         \o Grouping(Tail(dirs))

IsPrefix(s, t) == Len(s) <= Len(t) /\ s = SubSeq(t, 1, Len(s))

Shapes(entries) == [k \in DOMAIN entries |-> Shape(entries[k])]

\* C13: the entries of the QEMU scan are, in walk order, one entry per
\* directory with a disk image, named after it and holding all its files,
\* and one entry per archive of the other directories: no file of a
\* directory with a disk image is an entry of its own.  A scan that ends
\* without truncation returns all of them.
C13_DirectoryGrouping ==
    scanner = "qemu" =>
        /\ IsPrefix(Shapes(index_entries), Grouping(walk))
        /\ (scanPc = "done" /\ truncate = NoTruncate)
              => Shapes(index_entries) = Grouping(walk)

\* C13 witness: a finished scan without truncation of a directory with a
\* disk image, an archive and a third file, and of a directory of archives:
\* the first is one entry of three files.
C13_Witness ==
    /\ scanner = "qemu"
    /\ scanPc = "done"
    /\ truncate = NoTruncate
    /\ Len(walk) = 2
    /\ HasDisk(walk[1])
    /\ \E i \in DOMAIN walk[1].files : IsArchive(walk[1].files[i])
    /\ Len(walk[1].files) = 3
    /\ ~HasDisk(walk[2])
    /\ Len(index_entries) >= 2
    /\ index_entries[1].name = <<walk[1].name>>
    /\ Len(index_entries[1].files) = 3
    /\ Len(index_entries[2].files) = 1

\* C18: a file that is gone when its size is asked for is skipped: the scan
\* is not ended by it, and the file is in no entry.
C18_VanishedFileSkipped ==
    /\ scanPc # "crashed"
    /\ \A k \in DOMAIN index_entries : \A j \in DOMAIN index_entries[k].files :
          index_entries[k].files[j].size # Vanished

\* C19: the family catalog's images are the scan's entries in scan order,
\* and neither the scan nor the assembly of the catalog puts an id on one.
C19_AssemblerKeepsOrderAndIds ==
    scanPc = "written" =>
        /\ Shapes(full_schema) = Shapes(index_entries)
        /\ \A k \in DOMAIN full_schema : full_schema[k].id = 0

----------------------------------------------------------------------------
(* Claims about the size rendering, under SpecSize *)

\* the unit of 1024^k <= n < 1024^(k+1): the k-th of '', Ki, Mi, Gi
UnitOf(n) ==
    IF n < 1024 THEN ""
    ELSE IF n < 1024 * 1024 THEN "Ki"
    ELSE IF n < 1024 * 1024 * 1024 THEN "Mi"
    ELSE "Gi"

\* C14: the rendering of n bytes has the unit k with 1024^k <= n <
\* 1024^(k+1), 1024 bytes are rendered "1.0 Ki" and 1073741824 bytes
\* "1.0 Gi".
C14_HumanSize ==
    hsDone =>
        /\ hsOut.unit = UnitOf(hsBytes)
        /\ hsBytes = 1024 =>
              hsOut = [int |-> 1, tenth |-> 0, unit |-> "Ki", suffix |-> ""]
        /\ hsBytes = 1024 * 1024 * 1024 =>
              hsOut = [int |-> 1, tenth |-> 0, unit |-> "Gi", suffix |-> ""]

----------------------------------------------------------------------------
(* Claims about index.py, under SpecIndex *)

\* the value under a key of the unified catalog
Under(key) == DictGet(labhub, key)

\* the url_properties of the first family from i on, in the declared order,
\* whose catalog has a non-empty one; none if no family has
RECURSIVE FirstNonEmptyUrl(_)
FirstNonEmptyUrl(i) ==
    IF i > Len(IMAGE_TYPES) THEN <<>>
    ELSE LET json == scripts[IMAGE_TYPES[i]].json
         IN  IF json.has_url /\ json.url_properties # <<>>
             THEN json.url_properties
             ELSE FirstNonEmptyUrl(i + 1)

\* C11: the url_properties of the unified catalog are those of the first
\* family, in the declared order, whose catalog has a non-empty
\* url_properties; a family without one is passed over.
C11_FirstNonEmptyUrlProperties ==
    labhub # NotWritten =>
        Under("url_properties").url.value = FirstNonEmptyUrl(1)

\* C12: the unified catalog has the four metadata keys and then one key per
\* declared family, in the declared order, each with the images of that
\* family's catalog, entry for entry.
C12_FamiliesVerbatim ==
    labhub # NotWritten =>
        /\ Len(labhub) = 4 + Len(IMAGE_TYPES)
        /\ [i \in 1..4 |-> labhub[i].k]
              = <<"schema_version", "description", "last_update", "url_properties">>
        /\ \A i \in DOMAIN IMAGE_TYPES :
              /\ labhub[4 + i].k = IMAGE_TYPES[i]
              /\ labhub[4 + i].v.t = "list"
              /\ labhub[4 + i].v.images = scripts[IMAGE_TYPES[i]].json.images

\* C12 witness: a unified catalog was written from three family catalogs
\* of which two differ in their images, one of them with two entries.
C12_Witness ==
    /\ idxPc = "done"
    /\ labhub # NotWritten
    /\ Len(Under("QEMU").images) = 2
    /\ Len(Under("IOL").images) = 1
    /\ Under("DYNAMIPS").images = <<>>
    /\ Under("QEMU").images = scripts["QEMU"].json.images

\* C20: a family whose index script fails (returns non-zero) does not keep
\* the others from being indexed: when the run is over, every declared
\* family's script has been run.
C20_OtherFamiliesStillIndexed ==
    (/\ idxPc \in {"exited", "finish", "done"}
     /\ \E t \in DOMAIN run_results : run_results[t] # 0) =>
        \A i \in DOMAIN IMAGE_TYPES : IMAGE_TYPES[i] \in DOMAIN run_results

\* the families whose index script has been run and has ended
Indexed == DOMAIN run_results

\* C21: process_index_files starts only when the index script of every
\* declared family has ended, and the catalog it reads of a family is the
\* one that family's script left when it ended.
C21_MergerWaitsForAllFamilies ==
    (idxPc = "merge" \/ labhub # NotWritten) =>
        \A i \in DOMAIN IMAGE_TYPES :
            /\ IMAGE_TYPES[i] \in Indexed
            /\ run_results[IMAGE_TYPES[i]] = 0
            /\ idxPc = "merge" =>
                  repo[IMAGE_TYPES[i]].json = scripts[IMAGE_TYPES[i]].json

\* C21 witness: the merger is about to start after three index scripts
\* that each left a catalog of its own.
C21_Witness ==
    /\ idxPc = "merge"
    /\ Indexed = Range(IMAGE_TYPES)
    /\ \A i \in DOMAIN IMAGE_TYPES : repo[IMAGE_TYPES[i]].json.st = "ok"
    /\ repo["IOL"].json # repo["QEMU"].json
    /\ repo["QEMU"].json.images # <<>>

\* C24: when a run of index.py has ended, by whatever path, no deployed
\* index.py and no generated <family>.json is left in a family directory.
C24_CleanupOnEveryExit ==
    idxPc \in {"done", "exited", "interrupted"} =>
        \A i \in DOMAIN IMAGE_TYPES :
            /\ ~repo[IMAGE_TYPES[i]].script
            /\ repo[IMAGE_TYPES[i]].json.st = "missing"

\* C25: with a truncation limit k given, a scan returns at most k entries;
\* with k = 0 it returns none.
C25_TruncateBoundsEntries ==
    (truncate # NoTruncate /\ scanPc \in {"done", "written"}) =>
        Len(index_entries) <= truncate

MirrorFiles == {MirrorName(INDEX_FILES[i]) : i \in DOMAIN INDEX_FILES}

\* C23: an index file that is missing is skipped and the others are still
\* processed: after a run over index files each of which is missing or a
\* catalog, every catalog has its mirror written.
C23_MissingFileSkipped ==
    (/\ migPc = "done"
     /\ \A i \in DOMAIN INDEX_FILES : fs0[INDEX_FILES[i]].st \in {"json", "missing"}) =>
        \A i \in DOMAIN INDEX_FILES :
            fs0[INDEX_FILES[i]].st = "json" => MirrorName(INDEX_FILES[i]) \in written

\* C26: migration starts only with every index file a catalog at
\* validation, and when a run has ended it has written all four mirror
\* files or none, also when an index file is lost or a write fails after
\* validation.
C26_AllOrNothing ==
    /\ migPc = "migrate" =>
          \A i \in DOMAIN INDEX_FILES : fs0[INDEX_FILES[i]].st = "json"
    /\ migPc = "done" => (written = {} \/ written = MirrorFiles)

----------------------------------------------------------------------------
(* Claims about the stages that read a catalog file, under SpecStages *)

\* the merger has read a family catalog that is no JSON
MergerReadInvalid ==
    /\ idxPc \in {"exited", "finish", "done"}
    /\ Indexed = Range(IMAGE_TYPES)
    /\ \E t \in Range(IMAGE_TYPES) : scripts[t].json.st = "invalid"

\* C22: a stage that reads a catalog file that is no JSON fails on it and
\* writes nothing: sort.py returns False and leaves the file as it was,
\* index.py ends without writing labhub.json, check_dupes.py prints no
\* report.
C22_InvalidJsonWritesNothing ==
    /\ (sortRuns >= 1 /\ sortOrig = InvalidCatalog) =>
          (~sortOk /\ sortFile = sortOrig)
    /\ (dupDone /\ dupFile = "invalid") => (~dupReport /\ results = <<>>)
    /\ MergerReadInvalid => (idxPc = "exited" /\ labhub = NotWritten)

\* C22 witness: each of the three stages has been run on a file that is no
\* JSON.
C22_Witness ==
    /\ sortRuns >= 1
    /\ sortOrig = InvalidCatalog
    /\ dupDone
    /\ dupFile = "invalid"
    /\ MergerReadInvalid
    /\ idxPc = "exited"

====
